---- MODULE Spec2Model ----
(***************************************************************************)
(* A model of socket-app: the Reactive Container (reactive(), a value cell  *)
(* with subscriber fan-out and a delayed history()), the Transparent Ref    *)
(* (ref(), a value cell whose nested objects are observed through proxies)  *)
(* and the backend (a WebSocket server that polls a price and broadcasts    *)
(* it).  The three share no state; each has its own specification over its  *)
(* own variables.                                                           *)
(***************************************************************************)
EXTENDS Integers, Sequences, FiniteSets, TLC

(***************************************************************************)
(* Bounds of the model.                                                     *)
(***************************************************************************)
\* number of top-level writes to a Reactive Container
MaxWrites == 2
\* number of subscribers registered on a Reactive Container
MaxSubs == 2
\* number of history() calls
MaxReq == 1
\* number of times the poll timer of the backend fires
MaxPolls == 2
\* number of sockets that connect to the backend
MaxSockets == 2

\* The values a caller stores: the container never inspects them, so two
\* distinguishable values give every case of "equal to" and "different from".
Vals == {0, 1}

(***************************************************************************)
(* The subscriber functions a caller may register.  They are inputs of the *)
(* program: "rec" only observes its argument, "thr" throws, and "wr"        *)
(* writes the container's value back to `to` whenever it is notified of a   *)
(* different value (a re-entrant write).                                    *)
(***************************************************************************)
SubscriberFns ==
    {[kind |-> "rec", to |-> 0], [kind |-> "thr", to |-> 0]}
        \cup {[kind |-> "wr", to |-> x] : x \in Vals}

SeqsUpTo(S, n) == UNION {[1..k -> S] : k \in 0..n}

\* Two "wr" subscribers with different targets write against each other without
\* end (the code recurses until the stack is exhausted); the callers modelled
\* register re-entrant subscribers with one common target.
Terminating(subs) ==
    \A i, j \in DOMAIN subs :
        subs[i].kind = "wr" /\ subs[j].kind = "wr" => subs[i].to = subs[j].to

VARIABLES
    \* ---- Reactive Container (class Reactive) ----
    _value,        \* private _value: T
    _values,       \* private _values: T[]
    subscribers,   \* private subscribers: ((value: T) => void)[]
    requests,      \* the promises returned by history(), in call order
    \* ---- what a caller of the container observed ----
    stored,        \* every value assigned to _value since construction, in order
    lastOp,        \* the operation that produced this state
    writes,        \* the values of the writes run by the last top-level write
    calls,         \* the subscriber invocations made by the last top-level write
    subscribed,    \* every function ever passed to subscribe(), in the order passed
    threw,         \* whether the last top-level write raised an error to its caller
    \* ---- Transparent Ref (function ref) ----
    heap,          \* the plain objects the stored value is built from
    wrapper,       \* const wrapper = { value: ... }
    callback,      \* whether ref() was given a callback
    \* ---- what a caller of the Ref holds and observed ----
    cur,           \* the value the caller reached by reading from handle.value
    other,         \* the result of the first read, when the caller read cur twice
                   \* and until its next operation through cur or the handle
    trail,         \* the keys the caller read, after handle.value, to reach cur
    plain,         \* the value those keys lead to in the stored object itself
    nmut,          \* number of writes and deletes made so far
    lastRef,       \* the last operation made on the Ref
    emitted,       \* the events the callback received during the last operation
    \* ---- backend (server and state.ts) ----
    clients,       \* let clients: WebSocket[]
    readyState,    \* readyState of every socket that may connect
    lastPrice,     \* let lastPrice: null | number
    polls,         \* the runs of the setInterval callback, in the order started
    hasWebSocket,  \* whether the runtime has a global named WebSocket
    crashed,       \* whether a run of the callback ended in a rejected promise
    \* ---- what the sockets and the operator of the backend observed ----
    broadcasts,    \* the price of every message broadcast so far, in order
    lastPoll       \* what the last step did, when it was the end of a poll

fvars == <<heap, wrapper, callback, cur, other, trail, plain, nmut, lastRef, emitted>>

bvars == <<clients, readyState, lastPrice, polls, hasWebSocket, crashed, broadcasts,
           lastPoll>>

rvars == <<_value, _values, subscribers, requests, stored, lastOp, writes, calls,
           subscribed, threw>>

(***************************************************************************)
(* set value(newValue): lines 197-204.  The state of a running write is a   *)
(* record st = [value, values, writes, calls, threw].                       *)
(***************************************************************************)
RECURSIVE SetValue(_, _, _)
RECURSIVE ForEachSub(_, _, _, _, _)

\* this._value = newValue (line 198); the write is numbered in `writes`
AssignValue(st, newValue) ==
    [st EXCEPT !.value = newValue, !.writes = Append(@, newValue)]

\* this._values.push(this._value) (line 203)
PushValue(st) ==
    [st EXCEPT !.values = Append(@, st.value)]

\* sub(newValue) for subscriber number i of write number w (the arrow
\* function of line 202), and what the subscriber's own body then does
InvokeSub(st, subs, i, w, arg) ==
    LET called == [st EXCEPT !.calls = Append(@, [w |-> w, sub |-> i, arg |-> arg,
                                                  log |-> st.values])]
    IN  CASE subs[i].kind = "thr" -> [called EXCEPT !.threw = TRUE]
          [] subs[i].kind = "wr" /\ arg # subs[i].to -> SetValue(called, subs, subs[i].to)
          [] OTHER -> called

\* this.subscribers.forEach(...) (line 202): index order, and an error raised
\* by a callback leaves forEach and the setter at once
ForEachSub(st, subs, i, w, arg) ==
    IF i > Len(subs)
    THEN st
    ELSE LET after == InvokeSub(st, subs, i, w, arg)
         IN  IF after.threw THEN after ELSE ForEachSub(after, subs, i + 1, w, arg)

SetValue(st, subs, newValue) ==
    LET assigned == AssignValue(st, newValue)
        notified == ForEachSub(assigned, subs, 1, Len(assigned.writes), newValue)
    IN  IF notified.threw THEN notified ELSE PushValue(notified)

(***************************************************************************)
(* history(): lines 216-219.  A request is delaying (the timer of delay()   *)
(* is armed) or resolved.  The promise resolves with the array this._values *)
(* itself, so the Write action keeps the result of a resolved request equal *)
(* to the array.                                                            *)
(***************************************************************************)
\* a history() that copied the log when it was called
HistoryResultAtCall(r) == r.atCall

\* `return this._values` (line 218): the value the promise of request r
\* resolves with
HistoryResult(r) == _values

\* delay(ms): a promise that a timer resolves once ms have elapsed; until
\* then the caller awaiting it is suspended
DelayPending(r) == r.state = "delaying"

\* atCall and storedAtCall record the log and the stored values at the call
NewRequest ==
    [state |-> "delaying", atCall |-> _values, storedAtCall |-> stored, result |-> <<>>]

\* a resolved request holds the array, which the push of line 203 extends
Aliased(reqs, values) ==
    [i \in DOMAIN reqs |->
        IF reqs[i].state = "resolved" THEN [reqs[i] EXCEPT !.result = values] ELSE reqs[i]]

(***************************************************************************)
(* Operations of the Reactive Container.                                    *)
(***************************************************************************)
\* no Ref is in use
NoBackend ==
    /\ clients = <<>>
    /\ readyState = <<>>
    /\ lastPrice = <<>>
    /\ polls = <<>>
    /\ hasWebSocket = FALSE
    /\ crashed = FALSE
    /\ broadcasts = <<>>
    /\ lastPoll = <<>>

NoRef ==
    /\ heap = <<>>
    /\ wrapper = <<>>
    /\ callback = FALSE
    /\ cur = <<>>
    /\ other = <<>>
    /\ trail = <<>>
    /\ plain = <<>>
    /\ nmut = 0
    /\ lastRef = <<>>
    /\ emitted = <<>>

InitReactive ==
    /\ _value \in Vals
    /\ _values = <<>>
    /\ subscribers = <<>>
    /\ requests = <<>>
    /\ stored = <<>>
    /\ lastOp = "new"
    /\ writes = <<>>
    /\ calls = <<>>
    /\ subscribed = <<>>
    /\ threw = FALSE
    /\ NoRef
    /\ NoBackend

\* container.value = v, from outside any notification
Write ==
    \E v \in Vals :
        /\ Len(stored) < MaxWrites
        /\ LET st == SetValue([value |-> _value, values |-> _values, writes |-> <<>>,
                               calls |-> <<>>, threw |-> FALSE], subscribers, v)
           IN  /\ _value' = st.value
               /\ _values' = st.values
               /\ writes' = st.writes
               /\ calls' = st.calls
               /\ threw' = st.threw
               /\ stored' = stored \o st.writes
               /\ requests' = Aliased(requests, st.values)
        /\ lastOp' = "write"
        /\ UNCHANGED <<subscribers, subscribed, fvars, bvars>>

\* a subscribe() that puts the new functions in front (unshift)
AddSubscribersFront(subs, fns) == fns \o subs

\* subscribers.forEach((subscriber) => this.subscribers.push(subscriber)):
\* line 213
RECURSIVE AddSubscribers(_, _)
AddSubscribers(subs, fns) ==
    IF fns = <<>> THEN subs ELSE AddSubscribers(Append(subs, Head(fns)), Tail(fns))

\* container.subscribe(...fns): lines 212-214
Subscribe ==
    \E fns \in SeqsUpTo(SubscriberFns, MaxSubs) :
        /\ Len(subscribers) + Len(fns) <= MaxSubs
        /\ Terminating(subscribers \o fns)
        /\ subscribers' = AddSubscribers(subscribers, fns)
        /\ subscribed' = subscribed \o fns
        /\ lastOp' = "subscribe"
        /\ writes' = <<>>
        /\ calls' = <<>>
        /\ threw' = FALSE
        /\ UNCHANGED <<_value, _values, requests, stored, fvars, bvars>>

\* container.history() up to its await: line 216 and the call of line 217
HistoryCall ==
    /\ Len(requests) < MaxReq
    /\ requests' = Append(requests, NewRequest)
    /\ lastOp' = "history"
    /\ writes' = <<>>
    /\ calls' = <<>>
    /\ threw' = FALSE
    /\ UNCHANGED <<_value, _values, subscribers, subscribed, stored, fvars, bvars>>

\* the timer of delay(1000) fires and history() runs on from its await to
\* its return: lines 217-218
HistoryResume ==
    \E i \in DOMAIN requests :
        /\ DelayPending(requests[i])
        /\ requests' = [requests EXCEPT ![i].state = "resolved",
                                        ![i].result = HistoryResult(requests[i])]
        /\ lastOp' = "resume"
        /\ writes' = <<>>
        /\ calls' = <<>>
        /\ threw' = FALSE
        /\ UNCHANGED <<_value, _values, subscribers, subscribed, stored, fvars, bvars>>

NextReactive ==
    \/ Write
    \/ Subscribe
    \/ HistoryCall
    \/ HistoryResume

vars == <<rvars, fvars, bvars>>

SpecReactive == InitReactive /\ [][NextReactive]_vars

\* the event loop runs the timer of every history() that was called
FairReactive == SpecReactive /\ WF_vars(HistoryResume)

(***************************************************************************)
(* Transparent Ref: function ref, lines 29-133.                              *)
(*                                                                           *)
(* JavaScript values are records [t, id, v, path]: a primitive v, undefined, *)
(* a plain object (its identity id in heap), or a Proxy made by createProxy  *)
(* (its target id and the path it closed over).                              *)
(***************************************************************************)
\* number of keys a caller reads in one traversal from handle.value
MaxDepth == 2
\* number of writes and deletes made on one Ref
MaxOps == 2

Keys == {"a", "b", "value"}

Prim(p) == [t |-> "prim", id |-> 0, v |-> p, path |-> <<>>]
Undefined == [t |-> "undefined", id |-> 0, v |-> 0, path |-> <<>>]
Obj(i) == [t |-> "obj", id |-> i, v |-> 0, path |-> <<>>]
Proxy(i, path) == [t |-> "proxy", id |-> i, v |-> 0, path |-> path]
\* the object `wrapper` of line 100, as the target of an event
WrapperObj == [t |-> "wrapper", id |-> 0, v |-> 0, path |-> <<>>]
\* marks a key an object does not have
Absent == [t |-> "absent", id |-> 0, v |-> 0, path |-> <<>>]

NoProps == [k \in Keys |-> Absent]
PlainObject(props) == [props |-> props, frozen |-> FALSE]

\* The object graphs a caller builds before calling ref(): object 1 is
\* {a: {b: 1}} with a spare object {b: 2}, or {a: {value: {b: 1}}}.
InitHeaps ==
    { << PlainObject([NoProps EXCEPT !["a"] = Obj(2)]),
         PlainObject([NoProps EXCEPT !["b"] = Prim(1)]),
         PlainObject([NoProps EXCEPT !["b"] = Prim(2)]) >>,
      << PlainObject([NoProps EXCEPT !["a"] = Obj(2)]),
         PlainObject([NoProps EXCEPT !["value"] = Obj(3)]),
         PlainObject([NoProps EXCEPT !["b"] = Prim(1)]) >> }

\* Object.freeze(o), which a caller may have applied to the nested object
Frozen(h, ids) == [i \in DOMAIN h |-> [h[i] EXCEPT !.frozen = (i \in ids)]]

\* the values a caller writes: primitives and a plain object of its own
WVals == {Prim(1), Prim(2), Obj(3)}

\* const isObject = val => val !== null && typeof val === 'object': lines 30-31
isObject(val) == val.t \in {"obj", "proxy"}

(***************************************************************************)
(* The language's own property operations on a plain object.                *)
(***************************************************************************)
\* Reflect.get(target, key)
ReflectGet(h, id, key) ==
    IF h[id].props[key] = Absent THEN Undefined ELSE h[id].props[key]

\* Reflect.set(target, key, newValue): false on a frozen object
ReflectSet(h, id, key, newValue) ==
    IF h[id].frozen
    THEN [ok |-> FALSE, heap |-> h]
    ELSE [ok |-> TRUE, heap |-> [h EXCEPT ![id].props[key] = newValue]]

\* Reflect.deleteProperty(target, key): true when the key is absent, false
\* when it is present on a frozen object
ReflectDeleteProperty(h, id, key) ==
    IF h[id].props[key] # Absent /\ h[id].frozen
    THEN [ok |-> FALSE, heap |-> h]
    ELSE [ok |-> TRUE, heap |-> [h EXCEPT ![id].props[key] = Absent]]

(***************************************************************************)
(* createProxy and its traps: lines 45-98.                                   *)
(***************************************************************************)
\* createProxy(target, path): line 49
createProxy(target, path) == Proxy(target.id, path)

\* get(target, key): lines 50-58
ProxyGet(h, px, key) ==
    IF key = "value"
    THEN Obj(px.id)
    ELSE LET value == ReflectGet(h, px.id, key)
         IN  IF isObject(value) THEN createProxy(value, Append(px.path, key)) ELSE value

\* how many times one get(target, key) runs `new Proxy`: line 55 calls
\* createProxy, line 51 and line 57 do not
ProxiesMade(h, px, key) ==
    IF key # "value" /\ isObject(ReflectGet(h, px.id, key)) THEN 1 ELSE 0

\* a set trap that reports a write only when it changes the property
SetEventsIfChanged(ok, cb, px, key, newValue, oldValue) ==
    IF ok /\ cb /\ newValue # oldValue
    THEN << [operation |-> "set", path |-> Append(px.path, key), target |-> Obj(px.id),
             hasNew |-> TRUE, newValue |-> newValue, oldValue |-> oldValue] >>
    ELSE << >>

\* the callback call of lines 68-76
SetEvents(ok, cb, px, key, newValue, oldValue) ==
    IF ok /\ cb
    THEN << [operation |-> "set", path |-> Append(px.path, key), target |-> Obj(px.id),
             hasNew |-> TRUE, newValue |-> newValue, oldValue |-> oldValue] >>
    ELSE << >>

\* a set trap that ends with `return true`
ProxySetReturnsTrue(h, px, key, newValue, cb) ==
    LET oldValue == ReflectGet(h, px.id, key)
        result == ReflectSet(h, px.id, key, newValue)
    IN  [result |-> TRUE, heap |-> result.heap,
         events |-> SetEvents(result.ok, cb, px, key, newValue, oldValue)]

\* set(target, key, newValue): lines 60-78
ProxySet(h, px, key, newValue, cb) ==
    LET oldValue == ReflectGet(h, px.id, key)
        result == ReflectSet(h, px.id, key, newValue)
    IN  [result |-> result.ok, heap |-> result.heap,
         events |-> SetEvents(result.ok, cb, px, key, newValue, oldValue)]

\* a deleteProperty trap that reports the key alone, without the path of
\* its container
DeleteEventsLocalPath(ok, cb, px, key, oldValue) ==
    IF ok /\ cb
    THEN << [operation |-> "delete", path |-> << key >>, target |-> Obj(px.id),
             hasNew |-> FALSE, newValue |-> Undefined, oldValue |-> oldValue] >>
    ELSE << >>

\* the callback call of lines 87-94; the event object has no newValue
DeleteEvents(ok, cb, px, key, oldValue) ==
    IF ok /\ cb
    THEN << [operation |-> "delete", path |-> Append(px.path, key), target |-> Obj(px.id),
             hasNew |-> FALSE, newValue |-> Undefined, oldValue |-> oldValue] >>
    ELSE << >>

\* deleteProperty(target, key): lines 80-96
ProxyDeleteProperty(h, px, key, cb) ==
    LET oldValue == ReflectGet(h, px.id, key)
        result == ReflectDeleteProperty(h, px.id, key)
    IN  [result |-> result.ok, heap |-> result.heap,
         events |-> DeleteEvents(result.ok, cb, px, key, oldValue)]

(***************************************************************************)
(* The outer handle: lines 100-132.                                          *)
(***************************************************************************)
\* value: isObject(value) ? createProxy(value) : value  (lines 101, 117)
Wrap(value) == IF isObject(value) THEN createProxy(value, << >>) ELSE value

\* get(target, key): lines 105-108
HandleGet(w, key) == IF key = "value" THEN w.value ELSE Undefined

\* an outer set trap that reads oldValue after the assignment
HandleEventsStaleOld(cb, storedValue, oldValue) ==
    IF cb
    THEN << [operation |-> "set", path |-> << >>, target |-> WrapperObj,
             hasNew |-> TRUE, newValue |-> storedValue, oldValue |-> storedValue] >>
    ELSE << >>

\* the callback call of lines 119-127
HandleEvents(cb, storedValue, oldValue) ==
    IF cb
    THEN << [operation |-> "set", path |-> << >>, target |-> WrapperObj,
             hasNew |-> TRUE, newValue |-> storedValue, oldValue |-> oldValue] >>
    ELSE << >>

\* an outer set trap that stores whatever key is written
HandleSetAnyKey(w, key, newValue, cb) ==
    LET oldValue == w.value
        after == [w EXCEPT !.value = Wrap(newValue)]
    IN  [result |-> TRUE, wrapper |-> after,
         events |-> HandleEvents(cb, after.value, oldValue)]

\* set(target, key, newValue): lines 110-131
HandleSet(w, key, newValue, cb) ==
    IF key = "value"
    THEN LET oldValue == w.value
             after == [w EXCEPT !.value = Wrap(newValue)]
         IN  [result |-> TRUE, wrapper |-> after,
              events |-> HandleEvents(cb, after.value, oldValue)]
    ELSE [result |-> FALSE, wrapper |-> w, events |-> << >>]

(***************************************************************************)
(* What the caller does with a plain object it got hold of: the language's  *)
(* property operations, with no trap in between.                             *)
(***************************************************************************)
PlainGet(h, o, key) == ReflectGet(h, o.id, key)

PlainSet(h, o, key, newValue) ==
    LET result == ReflectSet(h, o.id, key, newValue)
    IN  [result |-> result.ok, heap |-> result.heap, events |-> << >>]

PlainDelete(h, o, key) ==
    LET result == ReflectDeleteProperty(h, o.id, key)
    IN  [result |-> result.ok, heap |-> result.heap, events |-> << >>]

(***************************************************************************)
(* Operations on a Ref.                                                      *)
(***************************************************************************)
NoOp ==
    [op |-> "new", via |-> "none", key |-> "", arg |-> Undefined, old |-> Undefined,
     present |-> FALSE, obj |-> 0, trail |-> << >>, ok |-> FALSE, result |-> FALSE,
     raised |-> FALSE, made |-> 0]

\* `x[k] = v` and `delete x[k]` as the caller's statement, in strict-mode code
\* (every module) and in sloppy code: when the trap (or the plain operation)
\* returns false, strict-mode code raises a TypeError and sloppy code goes on.
\* The set holds whether the statement raises, for each kind of caller.
Raises(result) == { strict /\ ~result : strict \in BOOLEAN }

\* no Reactive Container is in use
NoReactive ==
    /\ _value = 0
    /\ _values = <<>>
    /\ subscribers = <<>>
    /\ requests = <<>>
    /\ stored = <<>>
    /\ lastOp = "none"
    /\ writes = <<>>
    /\ calls = <<>>
    /\ subscribed = <<>>
    /\ threw = FALSE

\* ref(value, callback?): lines 29-133, for value a primitive or object 1
InitRef ==
    /\ \E h \in InitHeaps : \E ids \in {{}, {2}} : heap = Frozen(h, ids)
    /\ \E value \in {Prim(1), Obj(1)} : wrapper = [value |-> Wrap(value)]
    /\ callback \in BOOLEAN
    /\ cur = Undefined
    /\ other = Undefined
    /\ trail = << >>
    /\ plain = Undefined
    /\ nmut = 0
    /\ lastRef = NoOp
    /\ emitted = << >>
    /\ NoReactive
    /\ NoBackend

\* the object a proxy stands for, and any other value itself
Unwrapped(val) == IF val.t = "proxy" THEN Obj(val.id) ELSE val

\* handle.value
ReadValue ==
    /\ cur' = HandleGet(wrapper, "value")
    /\ other' = Undefined
    /\ trail' = << >>
    /\ plain' = Unwrapped(wrapper.value)
    /\ lastRef' = [NoOp EXCEPT !.op = "read", !.via = "handle", !.key = "value"]
    /\ emitted' = << >>
    /\ UNCHANGED <<heap, wrapper, callback, nmut, rvars, bvars>>

\* x[k], for x the value the caller has reached
ReadProp ==
    \E k \in Keys :
        /\ isObject(cur)
        /\ Len(trail) < MaxDepth
        /\ cur' = IF cur.t = "proxy" THEN ProxyGet(heap, cur, k) ELSE PlainGet(heap, cur, k)
        /\ other' = Undefined
        /\ trail' = Append(trail, k)
        /\ plain' = IF isObject(plain) THEN ReflectGet(heap, plain.id, k) ELSE Undefined
        /\ lastRef' = [NoOp EXCEPT !.op = "get", !.via = cur.t, !.key = k,
                                   !.old = ReflectGet(heap, cur.id, k),
                                   !.present = (heap[cur.id].props[k] # Absent),
                                   !.obj = cur.id, !.trail = trail]
        /\ emitted' = << >>
        /\ UNCHANGED <<heap, wrapper, callback, nmut, rvars, bvars>>

\* x[k]; x[k], for x the value the caller has reached: the caller keeps both
\* results, the first in `other` and the second in `cur`
ReadPropTwice ==
    \E k \in Keys :
        /\ isObject(cur)
        /\ Len(trail) < MaxDepth
        /\ other' = IF cur.t = "proxy" THEN ProxyGet(heap, cur, k) ELSE PlainGet(heap, cur, k)
        /\ cur' = IF cur.t = "proxy" THEN ProxyGet(heap, cur, k) ELSE PlainGet(heap, cur, k)
        /\ trail' = Append(trail, k)
        /\ plain' = IF isObject(plain) THEN ReflectGet(heap, plain.id, k) ELSE Undefined
        /\ lastRef' = [NoOp EXCEPT !.op = "get2", !.via = cur.t, !.key = k,
                                   !.old = ReflectGet(heap, cur.id, k),
                                   !.present = (heap[cur.id].props[k] # Absent),
                                   !.obj = cur.id, !.trail = trail,
                                   !.made = IF cur.t = "proxy"
                                            THEN ProxiesMade(heap, cur, k) + ProxiesMade(heap, cur, k)
                                            ELSE 0]
        /\ emitted' = << >>
        /\ UNCHANGED <<heap, wrapper, callback, nmut, rvars, bvars>>

\* y[k] = v, for y the first of the two results of ReadPropTwice
WriteOther ==
    \E k \in Keys, v \in WVals :
        /\ isObject(other)
        /\ nmut < MaxOps
        /\ LET r == IF other.t = "proxy"
                    THEN ProxySet(heap, other, k, v, callback)
                    ELSE PlainSet(heap, other, k, v)
           IN  /\ heap' = r.heap
               /\ emitted' = r.events
               /\ \E raised \in Raises(r.result) :
                   lastRef' = [op |-> "setother", via |-> other.t, key |-> k, arg |-> v,
                              old |-> ReflectGet(heap, other.id, k),
                              present |-> (heap[other.id].props[k] # Absent),
                              obj |-> other.id, trail |-> trail,
                              ok |-> ReflectSet(heap, other.id, k, v).ok,
                              result |-> r.result,
                              raised |-> raised, made |-> 0]
        /\ nmut' = nmut + 1
        /\ UNCHANGED <<wrapper, callback, cur, other, trail, plain, rvars, bvars>>

\* x[k] = v, for x the value the caller has reached
WriteProp ==
    \E k \in Keys, v \in WVals :
        /\ isObject(cur)
        /\ nmut < MaxOps
        /\ LET r == IF cur.t = "proxy"
                    THEN ProxySet(heap, cur, k, v, callback)
                    ELSE PlainSet(heap, cur, k, v)
           IN  /\ heap' = r.heap
               /\ emitted' = r.events
               /\ \E raised \in Raises(r.result) :
                   lastRef' = [op |-> "set", via |-> cur.t, key |-> k, arg |-> v,
                              old |-> ReflectGet(heap, cur.id, k),
                              present |-> (heap[cur.id].props[k] # Absent),
                              obj |-> cur.id, trail |-> trail,
                              ok |-> ReflectSet(heap, cur.id, k, v).ok,
                              result |-> r.result,
                              raised |-> raised, made |-> 0]
        /\ nmut' = nmut + 1
        /\ other' = Undefined
        /\ UNCHANGED <<wrapper, callback, cur, trail, plain, rvars, bvars>>

\* delete x[k], for x the value the caller has reached
DeleteProp ==
    \E k \in Keys :
        /\ isObject(cur)
        /\ nmut < MaxOps
        /\ LET r == IF cur.t = "proxy"
                    THEN ProxyDeleteProperty(heap, cur, k, callback)
                    ELSE PlainDelete(heap, cur, k)
           IN  /\ heap' = r.heap
               /\ emitted' = r.events
               /\ \E raised \in Raises(r.result) :
                   lastRef' = [op |-> "delete", via |-> cur.t, key |-> k, arg |-> Undefined,
                              old |-> ReflectGet(heap, cur.id, k),
                              present |-> (heap[cur.id].props[k] # Absent),
                              obj |-> cur.id, trail |-> trail,
                              ok |-> ReflectDeleteProperty(heap, cur.id, k).ok,
                              result |-> r.result,
                              raised |-> raised, made |-> 0]
        /\ nmut' = nmut + 1
        /\ other' = Undefined
        /\ UNCHANGED <<wrapper, callback, cur, trail, plain, rvars, bvars>>

\* handle[k] = v, for k = 'value' and for any other key
WriteHandle ==
    \E k \in Keys, v \in WVals :
        /\ nmut < MaxOps
        /\ LET r == HandleSet(wrapper, k, v, callback)
           IN  /\ wrapper' = r.wrapper
               /\ emitted' = r.events
               /\ \E raised \in Raises(r.result) :
                   lastRef' = [op |-> "sethandle", via |-> "handle", key |-> k, arg |-> v,
                              old |-> wrapper.value, present |-> (k = "value"),
                              obj |-> 0, trail |-> << >>,
                              ok |-> (k = "value"), result |-> r.result,
                              raised |-> raised, made |-> 0]
        /\ nmut' = nmut + 1
        /\ other' = Undefined
        /\ UNCHANGED <<heap, callback, cur, trail, plain, rvars, bvars>>

NextRef ==
    \/ ReadValue
    \/ ReadProp
    \/ WriteProp
    \/ DeleteProp
    \/ WriteHandle

SpecRef == InitRef /\ [][NextRef]_vars

\* the callers that also read a property twice and keep both results
NextRefTwice ==
    \/ NextRef
    \/ ReadPropTwice
    \/ WriteOther

SpecRefTwice == InitRef /\ [][NextRefTwice]_vars

(***************************************************************************)
(* Backend: src/unnamed/part_004.  The server (lines 1-60), state.ts        *)
(* (lines 74-95) and fetch-price.ts (lines 96-114).  The program runs on    *)
(* one thread: a handler, or a stretch of the poll callback between two     *)
(* awaits, is one step.                                                     *)
(*                                                                          *)
(* A price is null, NaN or a decimal number n / 10^e with no trailing zero  *)
(* in its fraction.                                                         *)
(***************************************************************************)
Sockets == 1..MaxSockets

PriceNull == [t |-> "null", n |-> 0, e |-> 0]
PriceNaN == [t |-> "nan", n |-> 0, e |-> 0]

RECURSIVE PriceNum(_, _)
PriceNum(n, e) ==
    IF e > 0 /\ n % 10 = 0 THEN PriceNum(n \div 10, e - 1)
    ELSE [t |-> "number", n |-> n, e |-> e]

\* the texts of data.price in a response of the price API, character by
\* character; the last is that of a response without a price field
PriceTexts ==
    { <<"1">>, <<"1", ".", "0">>, <<"2">>,
      <<"u", "n", "d", "e", "f", "i", "n", "e", "d">> }

DigitChars == <<"0", "1", "2", "3", "4", "5", "6", "7", "8", "9">>

IsDigit(c) == \E i \in DOMAIN DigitChars : DigitChars[i] = c

DigitOf(c) == (CHOOSE i \in DOMAIN DigitChars : DigitChars[i] = c) - 1

RECURSIVE TakeDigits(_)
TakeDigits(text) ==
    IF text # << >> /\ IsDigit(Head(text))
    THEN <<Head(text)>> \o TakeDigits(Tail(text))
    ELSE << >>

RECURSIVE ToNat(_, _)
ToNat(digits, acc) ==
    IF digits = << >> THEN acc ELSE ToNat(Tail(digits), acc * 10 + DigitOf(Head(digits)))

\* parseFloat(data.price), line 111: the longest leading decimal literal of
\* the text (digits, then a point and digits), NaN when there is none.  Signs
\* and exponents do not occur in PriceTexts.
parseFloat(text) ==
    LET whole == TakeDigits(text)
        rest == SubSeq(text, Len(whole) + 1, Len(text))
        fraction == IF rest # << >> /\ Head(rest) = "." THEN TakeDigits(Tail(rest)) ELSE << >>
    IN  IF whole = << >> /\ fraction = << >>
        THEN PriceNaN
        ELSE PriceNum(ToNat(whole \o fraction, 0), Len(fraction))

\* what `await fetchPrice()` hands to the poll callback: a response with a
\* price text, or a rejection (of fetch, line 105, or of json(), line 106)
Responses ==
    [kind : {"ok"}, text : PriceTexts] \cup {[kind |-> "error", text |-> << >>]}

\* a !== b on prices: NaN differs from everything, itself included
StrictNotEqual(a, b) == a.t = "nan" \/ b.t = "nan" \/ a # b

\* isUpdated(newPrice): lines 83-85
isUpdated(newPrice, last) == StrictNotEqual(newPrice, last)

\* the price as JSON.stringify(message) writes it (line 45): NaN becomes null
JsonPrice(price) == IF price.t = "nan" THEN PriceNull ELSE price

\* a broadcast that sends to every listed client, whatever its readyState
RecipientsAll(cl, rs) == cl

\* the clients that clients.forEach sends to: lines 43-47
Recipients(cl, rs) == SelectSeq(cl, LAMBDA c : rs[c] = "open")

NoPoll == [kind |-> "none", poll |-> 0, before |-> PriceNull, to |-> << >>]

\* The poll callback from the return of `await fetchPrice()` to its end:
\* lines 36-58.  `WebSocket` in line 44 is not imported (line 1 imports only
\* WebSocketServer): it is the global of the runtime, and where there is none
\* the first iteration of forEach raises a ReferenceError, which the catch of
\* line 56 takes.  No path leaves the try block with an error, so the promise
\* of the callback is never rejected.
PollCallback(resp, last, cl, rs, hasWS) ==
    IF resp.kind = "error"
    THEN [kind |-> "failed", lastPrice |-> last, to |-> << >>, rejected |-> FALSE]
    ELSE LET price == parseFloat(resp.text)
         IN  IF ~isUpdated(price, last)
             THEN [kind |-> "same", lastPrice |-> last, to |-> << >>, rejected |-> FALSE]
             ELSE IF cl # << >> /\ ~hasWS
             THEN [kind |-> "threw", lastPrice |-> price, to |-> << >>, rejected |-> FALSE]
             ELSE [kind |-> "sent", lastPrice |-> price, to |-> Recipients(cl, rs),
                   rejected |-> FALSE]

InitBackend ==
    /\ clients = << >>
    /\ readyState = [s \in Sockets |-> "none"]
    /\ lastPrice = PriceNull
    /\ polls = << >>
    /\ hasWebSocket \in BOOLEAN
    /\ crashed = FALSE
    /\ broadcasts = << >>
    /\ lastPoll = NoPoll
    /\ NoReactive
    /\ NoRef

\* wss.on('connection'): lines 16-29.  Sockets are numbered in the order they
\* connect.
Connect ==
    \E s \in Sockets :
        /\ readyState[s] = "none"
        /\ \A t \in Sockets : t < s => readyState[t] # "none"
        /\ readyState' = [readyState EXCEPT ![s] = "open"]
        /\ clients' = Append(clients, s)
        /\ lastPoll' = NoPoll
        /\ UNCHANGED <<lastPrice, polls, hasWebSocket, crashed, broadcasts, rvars, fvars>>

\* ws.on('message'): lines 26-28, which only logs: a step that changes
\* nothing but what the last step is known to have done
Message ==
    \E s \in Sockets :
        /\ readyState[s] = "open"
        /\ lastPoll # NoPoll
        /\ lastPoll' = NoPoll
        /\ UNCHANGED <<clients, readyState, lastPrice, polls, hasWebSocket, crashed,
                       broadcasts, rvars, fvars>>

\* a closing handshake starts on an open socket: readyState is CLOSING until
\* the socket is closed
CloseStart ==
    \E s \in Sockets :
        /\ readyState[s] = "open"
        /\ readyState' = [readyState EXCEPT ![s] = "closing"]
        /\ lastPoll' = NoPoll
        /\ UNCHANGED <<clients, lastPrice, polls, hasWebSocket, crashed, broadcasts,
                       rvars, fvars>>

\* the socket is closed and its 'close' event runs the handler of lines 21-25
CloseEvent ==
    \E s \in Sockets :
        /\ readyState[s] \in {"open", "closing"}
        /\ readyState' = [readyState EXCEPT ![s] = "closed"]
        /\ clients' = SelectSeq(clients, LAMBDA client : client # s)
        /\ lastPoll' = NoPoll
        /\ UNCHANGED <<lastPrice, polls, hasWebSocket, crashed, broadcasts, rvars, fvars>>

\* the timer of setInterval fires (line 32, every POLL_INTERVAL) and the
\* callback runs up to its await of fetchPrice() in line 36
TimerTick ==
    /\ ~crashed
    /\ Len(polls) < MaxPolls
    /\ polls' = Append(polls, [state |-> "fetching", kind |-> "none"])
    /\ lastPoll' = NoPoll
    /\ UNCHANGED <<clients, readyState, lastPrice, hasWebSocket, crashed, broadcasts,
                   rvars, fvars>>

\* fetchPrice() of some run settles, in any order among the runs in flight,
\* and that run of the callback goes on to its end
FetchDone ==
    \E i \in DOMAIN polls, resp \in Responses :
        /\ polls[i].state = "fetching"
        /\ LET r == PollCallback(resp, lastPrice, clients, readyState, hasWebSocket)
           IN  /\ lastPrice' = r.lastPrice
               /\ crashed' = r.rejected
               /\ polls' = [polls EXCEPT ![i] = [state |-> "done", kind |-> r.kind]]
               /\ broadcasts' = IF r.kind = "sent"
                                THEN Append(broadcasts, JsonPrice(r.lastPrice))
                                ELSE broadcasts
               /\ lastPoll' = [kind |-> r.kind, poll |-> i, before |-> lastPrice, to |-> r.to]
        /\ UNCHANGED <<clients, readyState, hasWebSocket, rvars, fvars>>

NextBackend ==
    \/ Connect
    \/ Message
    \/ CloseStart
    \/ CloseEvent
    \/ TimerTick
    \/ FetchDone

SpecBackend == InitBackend /\ [][NextBackend]_vars

(***************************************************************************)
(* Claims about the Reactive Container.                                     *)
(***************************************************************************)
Resolved(i) == i \in DOMAIN requests /\ requests[i].state = "resolved"

\* the invocations of subscriber i made by write number w of the last
\* top-level write
CallsOf(w, i) == {k \in DOMAIN calls : calls[k].w = w /\ calls[k].sub = i}

\* C1: with subscribers s1, s2 registered in that order (and no error raised
\* by a later subscriber), one write invokes s1 and then s2 with the written
\* value, also when s1 raises an error, and the error does not propagate out
\* of the write.
C1_SubscriberErrorIsolated ==
    /\ lastOp = "write"
    /\ Len(subscribers) >= 2
    /\ \A i \in 2..Len(subscribers) : subscribers[i].kind # "thr"
    =>
        /\ ~threw
        /\ \E a, b \in DOMAIN calls :
              /\ a < b
              /\ calls[a].w = 1 /\ calls[a].sub = 1 /\ calls[a].arg = writes[1]
              /\ calls[b].w = 1 /\ calls[b].sub = 2 /\ calls[b].arg = writes[1]

\* C2 as stated: a resolved history() request holds the log as it was when
\* history() was called.
C2_ResolvesWithCallTimeLog ==
    \A i \in DOMAIN requests : Resolved(i) => requests[i].result = requests[i].atCall

\* C2 as amended: every history() request eventually resolves, and what it
\* resolves with is the container's log itself, so it holds every value logged
\* up to the resolution (and after it), the writes made after the call included.
C2_ResolvesWithLiveLog ==
    /\ \A i \in 1..MaxReq : [](i \in DOMAIN requests => <>Resolved(i))
    /\ [](\A i \in DOMAIN requests : Resolved(i) => requests[i].result = _values)

\* a request has just resolved with a log longer than the one at its call
C2_Witness ==
    /\ lastOp = "resume"
    /\ \E i \in DOMAIN requests :
          Resolved(i) /\ Len(requests[i].result) > Len(requests[i].atCall)

\* C3: between writes, the history log is the sequence of all values stored
\* into the cell since construction, in the order they were stored.
C3_LogIsStoredValues == _values = stored

\* C4: every write (nested ones included) invokes every registered subscriber
\* exactly once, with the written value, equal to the current value or not.
C4_EachSubscriberOncePerWrite ==
    lastOp = "write" =>
        \A w \in DOMAIN writes : \A i \in DOMAIN subscribers :
            /\ Cardinality(CallsOf(w, i)) = 1
            /\ \A k \in CallsOf(w, i) : calls[k].arg = writes[w]

\* C5: a history() request that resolves with no write made since its call
\* resolves with exactly the values written so far, in order, and a request is
\* never resolved by the step that calls history().
C5_HistoryResolvesWithWrites ==
    /\ \A i \in DOMAIN requests :
          Resolved(i) /\ stored = requests[i].storedAtCall => requests[i].result = stored
    /\ lastOp = "history" => requests[Len(requests)].state = "delaying"

(***************************************************************************)
(* Claims about the Transparent Ref.                                         *)
(***************************************************************************)
\* the last operation was a write or delete made through the Ref: through a
\* proxy of createProxy or on the outer handle
RefMutation ==
    \/ lastRef.op \in {"set", "delete"} /\ lastRef.via = "proxy"
    \/ lastRef.op = "sethandle"

\* the last write or delete left the property (or the stored value) as it was
NoOpMutation ==
    CASE lastRef.op = "set" -> lastRef.present /\ lastRef.old = lastRef.arg
      [] lastRef.op = "delete" -> ~lastRef.present
      [] lastRef.op = "sethandle" -> lastRef.key = "value" /\ lastRef.old = Wrap(lastRef.arg)
      [] OTHER -> TRUE

\* C6 as stated: with a callback registered, a Ref emits an event if and only
\* if the mutation succeeded and was no no-op (a property set to the value it
\* holds, an absent key deleted), and never more than one.
C6_EventIffEffectiveMutation ==
    callback /\ RefMutation =>
        /\ Len(emitted) <= 1
        /\ Len(emitted) = 1 <=> (lastRef.ok /\ ~NoOpMutation)

\* C6 as amended: a Ref emits exactly one event for every write or delete the
\* underlying property operation reports as successful, those that change
\* nothing included, and none for a rejected one (nor without a callback).
C6_EventIffReportedSuccess ==
    RefMutation => Len(emitted) = (IF callback /\ lastRef.ok THEN 1 ELSE 0)

\* a property was set, through a proxy, to the value it held: one event
C6_Witness ==
    /\ callback
    /\ lastRef.op = "set" /\ lastRef.via = "proxy"
    /\ lastRef.present /\ lastRef.old = lastRef.arg
    /\ Len(emitted) = 1

\* C7: every object reached by reading keys from handle.value is a proxy of
\* createProxy, never the plain object, so every successful write or delete
\* made through such an object emits an event.
C7_TraversalYieldsWrappers ==
    /\ isObject(cur) => cur.t = "proxy"
    /\ callback /\ lastRef.op \in {"set", "delete"} /\ lastRef.ok => Len(emitted) = 1

\* C8: when the keys k1..kn lead from the root to an object, a successful
\* write of v to its key k emits exactly one event: SET, path <<k1, ..., kn, k>>,
\* target that object, oldValue the property's value before, newValue v.
C8_WriteEmitsRootPath ==
    callback /\ lastRef.op = "set" /\ lastRef.ok /\ isObject(plain) =>
        emitted = << [operation |-> "set", path |-> Append(lastRef.trail, lastRef.key),
                      target |-> plain, hasNew |-> TRUE,
                      newValue |-> lastRef.arg, oldValue |-> lastRef.old] >>

\* C9: on a Ref over a primitive with a callback, a write to handle.value
\* succeeds and emits exactly one event: SET, path <<>>, oldValue the value
\* stored before, newValue the value stored after; handle.value then reads as
\* the written value.
C9_PrimitiveWriteEmitsOnce ==
    /\ callback
    /\ lastRef.op = "sethandle" /\ lastRef.key = "value"
    /\ lastRef.old.t = "prim"
    =>
        /\ lastRef.result
        /\ HandleGet(wrapper, "value") = Wrap(lastRef.arg)
        /\ emitted = << [operation |-> "set", path |-> << >>, target |-> WrapperObj,
                         hasNew |-> TRUE, newValue |-> HandleGet(wrapper, "value"),
                         oldValue |-> lastRef.old] >>

\* a primitive was replaced by a different primitive
C9_Witness ==
    /\ callback
    /\ lastRef.op = "sethandle" /\ lastRef.key = "value"
    /\ lastRef.old.t = "prim" /\ lastRef.arg.t = "prim" /\ lastRef.arg # lastRef.old
    /\ Len(emitted) = 1

\* the event of a delete of lastRef.key made through a proxy reached by
\* lastRef.trail
DeleteEventExpected ==
    [operation |-> "delete", path |-> Append(lastRef.trail, lastRef.key),
     target |-> Obj(lastRef.obj), hasNew |-> FALSE, newValue |-> Undefined,
     oldValue |-> lastRef.old]

\* C10 as stated: deleting a present property through a proxy removes it and
\* emits exactly one event: DELETE, the path from the root to the key, the
\* value held before, and no newValue.
C10_DeleteRemovesAndEmits ==
    callback /\ lastRef.op = "delete" /\ lastRef.via = "proxy" /\ lastRef.present =>
        /\ heap[lastRef.obj].props[lastRef.key] = Absent
        /\ emitted = << DeleteEventExpected >>

\* C10 as amended: the same, unless the object refuses the deletion (it is
\* frozen): then the property stays and no event is emitted.
C10_DeleteRemovesUnlessRejected ==
    callback /\ lastRef.op = "delete" /\ lastRef.via = "proxy" /\ lastRef.present =>
        IF heap[lastRef.obj].frozen
        THEN /\ heap[lastRef.obj].props[lastRef.key] = lastRef.old
             /\ emitted = << >>
        ELSE /\ heap[lastRef.obj].props[lastRef.key] = Absent
             /\ emitted = << DeleteEventExpected >>

\* a present property of a nested object was deleted through its proxy
C10_Witness ==
    /\ callback
    /\ lastRef.op = "delete" /\ lastRef.via = "proxy" /\ lastRef.present
    /\ lastRef.trail # << >>
    /\ ~heap[lastRef.obj].frozen
    /\ Len(emitted) = 1

\* C11: a write of a key other than 'value' on the handle emits no event,
\* leaves the value read through handle.value as it was, and leaves the key
\* reading as undefined.
C11_OtherKeyWriteHasNoEffect ==
    lastRef.op = "sethandle" /\ lastRef.key # "value" =>
        /\ emitted = << >>
        /\ HandleGet(wrapper, "value") = lastRef.old
        /\ HandleGet(wrapper, lastRef.key) = Undefined

\* a key other than 'value' was written on a handle that has a callback
C11_Witness ==
    callback /\ lastRef.op = "sethandle" /\ lastRef.key # "value"

\* C12: a write of a key other than 'value' on the handle reports failure as
\* a value and never raises an error.
C12_OtherKeyWriteFailsSilently ==
    lastRef.op = "sethandle" /\ lastRef.key # "value" =>
        ~lastRef.result /\ ~lastRef.raised

\* C13: a write or delete through a proxy that the underlying object rejects
\* emits no event, leaves the objects as they were, and reports the result of
\* the underlying operation.
C13_RejectedMutationLeavesNoTrace ==
    [][ lastRef'.op \in {"set", "delete"} /\ lastRef'.via = "proxy" /\ ~lastRef'.ok =>
            /\ emitted' = << >>
            /\ heap' = heap
            /\ lastRef'.result = lastRef'.ok ]_vars

\* a write through a proxy was rejected by a frozen object
C13_Witness ==
    /\ callback
    /\ lastRef.op = "set" /\ lastRef.via = "proxy" /\ ~lastRef.ok
    /\ heap[lastRef.obj].frozen

\* C16: a read of key k through a proxy returns the property's current value,
\* wrapped in a proxy with the path extended by k when it is an object, for
\* every key k, 'value' included.
C16_ReadReturnsProperty ==
    lastRef.op = "get" /\ lastRef.via = "proxy" =>
        cur = IF isObject(lastRef.old)
              THEN createProxy(lastRef.old, Append(lastRef.trail, lastRef.key))
              ELSE lastRef.old

\* C14: two reads of the same nested object give two newly made proxies over
\* that object with the same path, and a successful write through the first
\* is seen through the second and emits the event a write through the second
\* would emit.
C14_TwoReadsEquivalent ==
    /\ lastRef.op = "get2" /\ isObject(lastRef.old) =>
           /\ lastRef.made = 2
           /\ cur.t = "proxy" /\ other.t = "proxy"
           /\ Unwrapped(cur) = lastRef.old /\ Unwrapped(other) = lastRef.old
           /\ cur.path = other.path
    /\ lastRef.op = "setother" /\ lastRef.ok /\ isObject(cur) =>
           /\ ReflectGet(heap, cur.id, lastRef.key) = lastRef.arg
           /\ callback => emitted = << [operation |-> "set",
                                        path |-> Append(lastRef.trail, lastRef.key),
                                        target |-> Unwrapped(cur), hasNew |-> TRUE,
                                        newValue |-> lastRef.arg, oldValue |-> lastRef.old] >>

(***************************************************************************)
(* Further claims about the Reactive Container.                             *)
(***************************************************************************)
\* C15: when a subscriber runs for a write of v, the history log already
\* ends with v.
C15_LoggedBeforeNotified ==
    lastOp = "write" =>
        \A k \in DOMAIN calls :
            /\ calls[k].log # << >>
            /\ calls[k].log[Len(calls[k].log)] = calls[k].arg

\* the subscribers invoked for write number w of the last top-level write, in
\* the order invoked
InvokedFor(w) ==
    LET RECURSIVE Pick(_)
        Pick(k) == IF k > Len(calls) THEN << >>
                   ELSE IF calls[k].w = w THEN <<calls[k].sub>> \o Pick(k + 1)
                   ELSE Pick(k + 1)
    IN  Pick(1)

CallsTo(i) == {k \in DOMAIN calls : calls[k].sub = i}

\* C18: when a top-level write has returned, the value each subscriber was
\* last invoked with is the container's current value, re-entrant writes
\* included.
C18_LastNotifiedIsCurrent ==
    lastOp = "write" /\ ~threw =>
        \A i \in DOMAIN subscribers :
            \A k \in CallsTo(i) :
                (\A m \in CallsTo(i) : m <= k) => calls[k].arg = _value

(***************************************************************************)
(* Claims about the backend.                                                *)
(***************************************************************************)
\* C19: a poll broadcasts only a price that differs from the last recorded
\* price and records it in the same step, so no two consecutive broadcasts
\* carry the same price, whatever the order in which overlapping polls end.
C19_NoRepeatedBroadcast ==
    /\ lastPoll.kind = "sent" =>
           /\ lastPrice # lastPoll.before
           /\ broadcasts[Len(broadcasts)] = JsonPrice(lastPrice)
    /\ \A k \in DOMAIN broadcasts :
           k > 1 => broadcasts[k] # broadcasts[k - 1]

\* the sockets in the client list
Listed == {clients[k] : k \in DOMAIN clients}

\* C20: the client list holds exactly the sockets that connected and are not
\* closed, each once; a poll sends only to listed sockets that are OPEN, so
\* never to a socket whose close event has run; a poll whose fetch fails
\* sends nothing, leaves the last price as it was and leaves the timer
\* running.
C20_BroadcastReachesOpenClientsOnly ==
    /\ Listed = {s \in Sockets : readyState[s] \in {"open", "closing"}}
    /\ Len(clients) = Cardinality(Listed)
    /\ \A k \in DOMAIN lastPoll.to :
           lastPoll.to[k] \in Listed /\ readyState[lastPoll.to[k]] = "open"
    /\ lastPoll.kind = "failed" =>
           /\ lastPoll.to = << >>
           /\ lastPrice = lastPoll.before
           /\ ~crashed

\* after a failed poll, a later poll sent a message to the socket that is
\* open, and to neither the closing socket nor the one that was closed
C20_Witness ==
    /\ Len(polls) >= 2
    /\ polls[1].kind = "failed"
    /\ lastPoll.kind = "sent" /\ lastPoll.poll = 2
    /\ lastPoll.to # << >>
    /\ \E s \in Sockets : readyState[s] \in {"closing", "closed"}

====
